---- MODULE Spec2Model ----
(***************************************************************************)
(* Model of the cache store of pubg-leaderboard (package store,           *)
(* RedisClient) on top of a Redis Cluster.                                 *)
(*                                                                         *)
(* The backend is the key space of the cluster: a map from key to a value  *)
(* with an optional expiry.  RedisClient.Client is a *redis.ClusterClient, *)
(* so the commands queued on its TxPipeline are sent as one MULTI/EXEC per *)
(* hash slot; the keys "leaderboard" and "player_stats:<id>" carry no hash *)
(* tag and live in different slots.  Time is counted in minutes.           *)
(*                                                                         *)
(* On top of the store stands the HTTP boundary (package api, Server):     *)
(* the handlers of the routes, the ctx each hands to its operation, the    *)
(* status each answers with and the name handleBackupLeaderboard gives to  *)
(* a backup.  The service between the two (package service) is taken from  *)
(* its description: its operations return a value or one of their errors.  *)
(***************************************************************************)
EXTENDS Integers, Sequences, FiniteSets, TLC

VARIABLES
    db,         \* the cluster's key space: key -> [kind, val, exp]
    clock,      \* the backend's time, in minutes
    ticks,      \* number of clock advances so far
    calls,      \* number of UpdateLeaderboard calls started so far
    pc,         \* position of each UpdateLeaderboard caller
    snap,       \* leaderboardData of the call in flight
    pipe,       \* the commands queued on the call's TxPipeline
    pending,    \* hash slots of the pipeline not yet executed
    failed,     \* some slot's transaction of this call returned an error
    cancelled,  \* the call's ctx has been cancelled
    result,     \* error of the UpdateLeaderboard call that returned last, and
                \* the number of queued commands it dropped unexecuted
    applied,    \* slots whose commands this call has applied
    clean,      \* no other caller wrote since this call started
    started,    \* time of the first write applied by this call
    lbAt,       \* time at which this call's SET leaderboard was applied
    last,       \* the last successful, undisturbed UpdateLeaderboard
    everIn,     \* player IDs of every snapshot handed to UpdateLeaderboard
    season,     \* the last successful UpdateSeason, while nothing replaced it
    seasonCalls,\* number of UpdateSeason calls so far
    ret,        \* what the last single-command operation returned
    statsAt,    \* time of the last write applied to each player's key, while
                \* the key is there
    req,        \* the HTTP request being handled
    resp,       \* the HTTP response written last, and what the operation
                \* had returned to the handler
    wall,       \* time.Now() of the server, in ticks since StartOfDay
    backups,    \* the backup requests handled: time and generated name
    requests    \* number of HTTP requests received so far

vars == <<db, clock, ticks, calls, pc, snap, pipe, pending, failed,
          cancelled, result, applied, clean, started, lbAt, last, everIn,
          season, seasonCalls, ret, statsAt, req, resp, wall, backups,
          requests>>

httpVars == <<req, resp, wall, backups, requests>>

storeVars == <<db, clock, ticks, calls, pc, snap, pipe, pending, failed,
               cancelled, result, applied, clean, started, lbAt, last, everIn,
               season, seasonCalls, ret, statsAt>>

updVars == <<pc, snap, pipe, pending, failed, cancelled, result,
             applied, clean, started, lbAt>>

----------------------------------------------------------------------------
(* Bounds of the model *)

MaxTicks == 2
MaxCalls == 2
MaxSeasonCalls == 2
MaxRequests == 2
MaxWall == 2

(* Units of time.Duration, in minutes *)
Minute == 1
Hour == 60 * Minute

(* TTLs of the three key families *)
LeaderboardTTL == 10 * Minute
PlayerStatsTTL == 10 * Minute
SeasonTTL == 24 * Hour

(* Durations by which the clock advances: up to, onto and past a TTL *)
LeaderboardSteps == {1 * Minute, LeaderboardTTL - Minute}
SeasonSteps == {1 * Minute, SeasonTTL - Minute}

NoExpiry == -1
None == [none |-> TRUE]

Callers == {"u1", "u2"}

----------------------------------------------------------------------------
(* Data model: model.PlayerAttribute, the entries of Included,             *)
(* model.LeaderboardResponse and model.SeasonData                          *)

Attr(r, g, w) == [rank |-> r, gamesPlayed |-> g, wins |-> w]
Player(id, a) == [ID |-> id, Attributes |-> a]
Leaderboard(inc) == [Included |-> inc]

PlayerIDs == {"p1", "p2", "p3"}

(* The snapshots handed to UpdateLeaderboard: none, one or two players,   *)
(* a player that changes or leaves between snapshots, a repeated ID        *)
Snapshots ==
    { Leaderboard(<<>>),
      Leaderboard(<<Player("p1", Attr(3, 50, 5)), Player("p2", Attr(1, 80, 20))>>),
      Leaderboard(<<Player("p2", Attr(2, 81, 20))>>),
      Leaderboard(<<Player("p1", Attr(3, 50, 5)), Player("p1", Attr(4, 50, 5))>>) }

MaxIncluded == 2

Seasons == {[id |-> "season-1"], [id |-> "season-2"]}

IDsOf(lb) == {lb.Included[k].ID : k \in 1..Len(lb.Included)}

UniqueIDs(lb) ==
    \A j, k \in 1..Len(lb.Included) :
        lb.Included[j].ID = lb.Included[k].ID => j = k

(* encoding/json: Marshal produces the text of a value, Unmarshal reads it *)
(* back and fails on anything that is not such a text                      *)
JsonMarshal(v) == <<"json", v>>
JsonValid(b) == Len(b) = 2 /\ b[1] = "json"
JsonUnmarshal(b) == b[2]

----------------------------------------------------------------------------
(* Key naming *)

LeaderboardKey == "leaderboard"
SeasonKey == "current_season"
PlayerStatsKey(id) == "player_stats:" \o id

(* Hash slot of a key: none of the keys has a hash tag, distinct keys are  *)
(* hashed independently                                                    *)
Slot(key) == key

Slots == {Slot(LeaderboardKey)} \cup {Slot(PlayerStatsKey(id)) : id \in PlayerIDs}

----------------------------------------------------------------------------
(* Backend commands *)

SetCmd(key, val, ttl) ==
    [op |-> "SET", key |-> key, field |-> "", val |-> val, ttl |-> ttl]
HSetCmd(key, field, val) ==
    [op |-> "HSET", key |-> key, field |-> field, val |-> val, ttl |-> 0]
ExpireCmd(key, ttl) ==
    [op |-> "EXPIRE", key |-> key, field |-> "", val |-> <<>>, ttl |-> ttl]

Put(d, key, rec) == (key :> rec) @@ d

(* SET key val EX ttl: replaces value and expiry *)
ApplySet(d, c, now) ==
    Put(d, c.key, [kind |-> "string", val |-> c.val, exp |-> now + c.ttl])

(* HSETNX in the place of HSET: a field that is there is kept *)
ApplyHSet_KeepField(d, c, now) ==
    IF c.key \notin DOMAIN d
    THEN Put(d, c.key, [kind |-> "hash", val |-> (c.field :> c.val), exp |-> NoExpiry])
    ELSE IF d[c.key].kind = "hash"
         THEN Put(d, c.key, [d[c.key] EXCEPT !.val = d[c.key].val @@ (c.field :> c.val)])
         ELSE d

(* HSET key field val: creates the hash without expiry, or sets the field  *)
(* of an existing hash and keeps its expiry                                *)
ApplyHSet(d, c, now) ==
    IF c.key \notin DOMAIN d
    THEN Put(d, c.key, [kind |-> "hash", val |-> (c.field :> c.val), exp |-> NoExpiry])
    ELSE IF d[c.key].kind = "hash"
         THEN Put(d, c.key, [d[c.key] EXCEPT !.val = (c.field :> c.val) @@ d[c.key].val])
         ELSE d

(* EXPIRE key ttl: sets the expiry of an existing key *)
ApplyExpire(d, c, now) ==
    IF c.key \in DOMAIN d
    THEN Put(d, c.key, [d[c.key] EXCEPT !.exp = now + c.ttl])
    ELSE d

ApplyCmd(d, c, now) ==
    CASE c.op = "SET" -> ApplySet(d, c, now)
      [] c.op = "HSET" -> ApplyHSet(d, c, now)
      [] c.op = "EXPIRE" -> ApplyExpire(d, c, now)

RECURSIVE ApplyAll(_, _, _)
ApplyAll(d, cmds, now) ==
    IF cmds = <<>> THEN d
    ELSE ApplyAll(ApplyCmd(d, Head(cmds), now), Tail(cmds), now)

(* A key is gone once the time is past its expiry *)
Expired(rec, now) == rec.exp # NoExpiry /\ now > rec.exp

Purge(d, now) ==
    [k \in {x \in DOMAIN d : ~Expired(d[x], now)} |-> d[k]]

EmptyDb == [k \in {} |-> None]

----------------------------------------------------------------------------
(* Results of the operations *)

Ok(v) == [err |-> "nil", val |-> v]
Err(e) == [err |-> e, val |-> <<>>]

(* GET key *)
RedisGet(d, key) ==
    IF key \notin DOMAIN d THEN Err("redis.Nil")
    ELSE IF d[key].kind # "string" THEN Err("WRONGTYPE")
    ELSE Ok(d[key].val)

(* HGET key field *)
RedisHGet(d, key, field) ==
    IF key \notin DOMAIN d THEN Err("redis.Nil")
    ELSE IF d[key].kind # "hash" THEN Err("WRONGTYPE")
    ELSE IF field \notin DOMAIN d[key].val THEN Err("redis.Nil")
    ELSE Ok(d[key].val[field])

(* The shared tail of the three getters: cache miss, backend error, decode *)
Decode(r) ==
    IF r.err = "redis.Nil" THEN Err("ErrCacheMiss")
    ELSE IF r.err # "nil" THEN r
    ELSE IF ~JsonValid(r.val) THEN Err("unmarshal")
    ELSE Ok(JsonUnmarshal(r.val))

GetLeaderboard(d) == Decode(RedisGet(d, LeaderboardKey))
(* The player's record served only while the snapshot is cached *)
GetPlayerStats_WhileLeaderboard(d, playerID) ==
    IF LeaderboardKey \in DOMAIN d
    THEN Decode(RedisHGet(d, PlayerStatsKey(playerID), "stats"))
    ELSE Err("ErrCacheMiss")

GetPlayerStats(d, playerID) == Decode(RedisHGet(d, PlayerStatsKey(playerID), "stats"))
GetSeason(d) == Decode(RedisGet(d, SeasonKey))

IsOk(r) == r.err = "nil"
IsMiss(r) == r.err = "ErrCacheMiss"

----------------------------------------------------------------------------
(* UpdateLeaderboard: what it queues on the pipeline *)

(* The SET queued with the season's expiry instead of the leaderboard's *)
QueueLeaderboard_SeasonTTL(lb) ==
    <<SetCmd(LeaderboardKey, JsonMarshal(lb), SeasonTTL)>>

QueueLeaderboard(lb) ==
    <<SetCmd(LeaderboardKey, JsonMarshal(lb), LeaderboardTTL)>>

(* The player's hash written under a field GetPlayerStats does not read *)
QueuePlayer_WrongField(q, player) ==
    q \o <<HSetCmd(PlayerStatsKey(player.ID), "attributes", JsonMarshal(player.Attributes)),
           ExpireCmd(PlayerStatsKey(player.ID), PlayerStatsTTL)>>

(* The player's hash written without the EXPIRE that follows it *)
QueuePlayer_NoExpire(q, player) ==
    q \o <<HSetCmd(PlayerStatsKey(player.ID), "stats", JsonMarshal(player.Attributes))>>

QueuePlayer(q, player) ==
    q \o <<HSetCmd(PlayerStatsKey(player.ID), "stats", JsonMarshal(player.Attributes)),
           ExpireCmd(PlayerStatsKey(player.ID), PlayerStatsTTL)>>

SlotsOf(q) == {Slot(q[k].key) : k \in 1..Len(q)}
CmdsOfSlot(q, s) == SelectSeq(q, LAMBDA c : Slot(c.key) = s)

(* The errors UpdateLeaderboard returns *)
ErrMarshalLeaderboard == "redisclient - error marshaling entire leaderboard data"
ErrMarshalPlayer == "redisclient - error marshaling player stats"
ErrUpdate == "redisclient - error updating leaderboard in Redis"

(* The queued commands executed on the way out of a marshalling error *)
AbandonPipeline_Exec(d, q, now) == ApplyAll(d, q, now)

(* A return on a marshalling error leaves the queued commands unexecuted *)
AbandonPipeline(d, q, now) == d

----------------------------------------------------------------------------
(* The HTTP boundary: package api, Server.  A handler runs up to its call  *)
(* of the operation (Receive), the operation runs while the client may go  *)
(* away (CancelRequest), and the handler turns what the operation returns  *)
(* into the response.                                                      *)

(* The routes of setupRoutes *)
PingRoute == "/ping"
RedisPingRoute == "/redis-ping"
CurrentSeasonRoute == "/current-season"
CurrentLeaderboardRoute == "/current-leaderboard"
PlayerStatsRoute == "/player-stats/:playerID"
BackupRoute == "/backup-leaderboard"
RestoreRoute == "/restore-leaderboard"

Routes == {PingRoute, RedisPingRoute, CurrentSeasonRoute, CurrentLeaderboardRoute,
           PlayerStatsRoute, BackupRoute, RestoreRoute}

(* The operation each handler calls *)
OperationOf(ep) ==
    CASE ep = RedisPingRoute -> "Ping"
      [] ep = CurrentSeasonRoute -> "GetCurrentSeason"
      [] ep = CurrentLeaderboardRoute -> "GetCurrentLeaderboard"
      [] ep = PlayerStatsRoute -> "GetPlayerStats"
      [] ep = BackupRoute -> "BackupLeaderboardData"
      [] ep = RestoreRoute -> "RestoreLeaderboardData"
      [] OTHER -> "none"

(* The ctx each handler hands to its operation *)
RequestCtx == "c.Request.Context()"
BackgroundCtx == "context.Background()"

CtxOf(ep) ==
    CASE ep = RedisPingRoute -> RequestCtx
      [] ep = CurrentSeasonRoute -> BackgroundCtx
      [] ep = CurrentLeaderboardRoute -> BackgroundCtx
      [] ep = PlayerStatsRoute -> BackgroundCtx
      [] ep = BackupRoute -> RequestCtx
      [] ep = RestoreRoute -> RequestCtx
      [] OTHER -> "none"

(* time.Now().Format("20060102_150405"): the server's time is counted in   *)
(* half seconds from 00:00:59 of a day; the layout has the year, month,    *)
(* day, hour, minute and second, each of fixed width, and nothing finer    *)
TicksPerSecond == 2
StartSecond == 59

Format(t) ==
    LET sec == StartSecond + t \div TicksPerSecond IN
    <<2024, 1, 1 + sec \div 86400, (sec \div 3600) % 24, (sec \div 60) % 60, sec % 60>>

(* fmt.Sprintf("leaderboard_backup_%s.json", ...) *)
BackupFileName(t) == <<"leaderboard_backup_">> \o Format(t) \o <<".json">>

(* The files a restore request may name: none, or a backup's *)
RestoreFiles == {<<>>, BackupFileName(0)}

NoRequest ==
    [ep |-> "none", playerID |-> "", file |-> <<>>, ctx |-> "none",
     cancelled |-> FALSE, done |-> FALSE]

(* What the operations of the service hand back on success, and the        *)
(* errors of section 7 that each may surface                               *)
ValuesOf(op) ==
    CASE op = "GetCurrentSeason" -> Seasons
      [] op = "GetCurrentLeaderboard" -> Snapshots
      [] op = "GetPlayerStats" -> {Attr(3, 50, 5), Attr(1, 80, 20)}
      [] OTHER -> {<<>>}

ErrorsOf(op) ==
    CASE op = "Ping" -> {"BackendUnreachable"}
      [] op = "GetCurrentSeason" -> {"UpstreamUnavailable"}
      [] op = "GetCurrentLeaderboard" -> {"UpstreamUnavailable"}
      [] op = "GetPlayerStats" -> {"ErrCacheMiss", "UpstreamUnavailable"}
      [] op = "BackupLeaderboardData" -> {"NothingToBackup", "StorageWriteError"}
      [] op = "RestoreLeaderboardData" -> {"StorageReadError", "DecodeError"}
      [] OTHER -> {}

(* An operation whose ctx is done may also fail with the ctx's error *)
Outcomes(op, done) ==
    {Ok(v) : v \in ValuesOf(op)} \cup {Err(e) : e \in ErrorsOf(op)}
        \cup (IF done THEN {Err("context canceled")} ELSE {})

----------------------------------------------------------------------------
(* Initial state: an empty cache, no call in flight *)

Init ==
    /\ db = EmptyDb
    /\ clock = 0
    /\ ticks = 0
    /\ calls = 0
    /\ pc = [u \in Callers |-> "idle"]
    /\ snap = [u \in Callers |-> Leaderboard(<<>>)]
    /\ pipe = [u \in Callers |-> <<>>]
    /\ pending = [u \in Callers |-> {}]
    /\ failed = [u \in Callers |-> FALSE]
    /\ cancelled = [u \in Callers |-> FALSE]
    /\ result = [err |-> "none", dropped |-> 0]
    /\ applied = [u \in Callers |-> {}]
    /\ clean = [u \in Callers |-> TRUE]
    /\ started = [u \in Callers |-> -1]
    /\ lbAt = [u \in Callers |-> -1]
    /\ last = None
    /\ everIn = {}
    /\ season = None
    /\ seasonCalls = 0
    /\ ret = [op |-> "none", res |-> Err("none")]
    /\ statsAt = [p \in PlayerIDs |-> -1]
    /\ req = NoRequest
    /\ resp = [ep |-> "none", svc |-> Err("none"), status |-> 0, body |-> <<>>]
    /\ wall = 0
    /\ backups = <<>>
    /\ requests = 0

----------------------------------------------------------------------------
(* UpdateLeaderboard.  Everything before pipe.Exec (the two kinds of       *)
(* json.Marshal and the queueing of commands) works on the call's own      *)
(* data, so it is one step; pipe.Exec then runs slot by slot.              *)

(* The pipeline after pipe.Set and the rounds of the loop over `included` *)
RECURSIVE QueuePlayers(_, _)
QueuePlayers(q, included) ==
    IF included = <<>> THEN q
    ELSE QueuePlayers(QueuePlayer(q, Head(included)), Tail(included))

Fresh(u) ==
    /\ failed' = [failed EXCEPT ![u] = FALSE]
    /\ cancelled' = [cancelled EXCEPT ![u] = FALSE]
    /\ applied' = [applied EXCEPT ![u] = {}]
    /\ clean' = [clean EXCEPT ![u] = TRUE]
    /\ started' = [started EXCEPT ![u] = -1]
    /\ lbAt' = [lbAt EXCEPT ![u] = -1]

(* Every json.Marshal succeeds: the call reaches pipe.Exec with the SET    *)
(* and one HSET and EXPIRE per player queued                               *)
UpdateLeaderboardBegin(u, lb) ==
    /\ pc[u] = "idle"
    /\ calls < MaxCalls
    /\ calls' = calls + 1
    /\ pc' = [pc EXCEPT ![u] = "exec"]
    /\ snap' = [snap EXCEPT ![u] = lb]
    /\ LET q == QueuePlayers(QueueLeaderboard(lb), lb.Included) IN
         /\ pipe' = [pipe EXCEPT ![u] = q]
         /\ pending' = [pending EXCEPT ![u] = SlotsOf(q)]
    /\ Fresh(u)
    /\ everIn' = everIn \cup IDsOf(lb)
    /\ UNCHANGED <<db, clock, ticks, result, last, season, seasonCalls, ret>>
    /\ UNCHANGED <<statsAt, httpVars>>

(* json.Marshal(leaderboardData) fails: the call returns before it has a   *)
(* pipeline                                                                *)
UpdateLeaderboardEncodeError(u, lb) ==
    /\ pc[u] = "idle"
    /\ calls < MaxCalls
    /\ calls' = calls + 1
    /\ result' = [err |-> ErrMarshalLeaderboard, dropped |-> 0]
    /\ db' = AbandonPipeline(db, <<>>, clock)
    /\ UNCHANGED <<clock, ticks, pc, snap, pipe, pending, failed, cancelled,
                   applied, clean, started, lbAt, last, everIn, season,
                   seasonCalls, ret>>
    /\ UNCHANGED <<statsAt, httpVars>>

(* json.Marshal(player.Attributes) fails in round k of the loop: the call  *)
(* returns with the SET and the commands of the k-1 players before it      *)
(* queued, and the pipeline is never executed                              *)
PlayerStatsEncodeError(u, lb, k) ==
    /\ pc[u] = "idle"
    /\ calls < MaxCalls
    /\ k \in 1..Len(lb.Included)
    /\ calls' = calls + 1
    /\ LET q == QueuePlayers(QueueLeaderboard(lb), SubSeq(lb.Included, 1, k - 1)) IN
         /\ result' = [err |-> ErrMarshalPlayer, dropped |-> Len(q)]
         /\ db' = AbandonPipeline(db, q, clock)
    /\ UNCHANGED <<clock, ticks, pc, snap, pipe, pending, failed, cancelled,
                   applied, clean, started, lbAt, last, everIn, season,
                   seasonCalls, ret>>
    /\ UNCHANGED <<statsAt, httpVars>>

(* pipe.Exec: the MULTI/EXEC of one hash slot is applied *)
ExecSlotOk(u, s) ==
    /\ pc[u] = "exec"
    /\ s \in pending[u]
    /\ ~cancelled[u]
    /\ db' = ApplyAll(db, CmdsOfSlot(pipe[u], s), clock)
    /\ pending' = [pending EXCEPT ![u] = @ \ {s}]
    /\ applied' = [applied EXCEPT ![u] = @ \cup {s}]
    /\ clean' = [v \in Callers |-> IF v = u THEN clean[v] ELSE FALSE]
    /\ started' = [started EXCEPT ![u] = IF @ = -1 THEN clock ELSE @]
    /\ lbAt' = [lbAt EXCEPT ![u] = IF s = Slot(LeaderboardKey) THEN clock ELSE @]
    /\ last' = None
    /\ UNCHANGED <<clock, ticks, calls, pc, snap, pipe, failed, cancelled,
                   result, everIn, season, seasonCalls, ret>>
    /\ statsAt' = [p \in PlayerIDs |->
           IF s = Slot(PlayerStatsKey(p)) THEN clock ELSE statsAt[p]]
    /\ UNCHANGED httpVars

(* pipe.Exec: the MULTI/EXEC of one hash slot fails (its node does not     *)
(* answer, or ctx is already cancelled) and applies nothing                *)
ExecSlotFail(u, s) ==
    /\ pc[u] = "exec"
    /\ s \in pending[u]
    /\ pending' = [pending EXCEPT ![u] = @ \ {s}]
    /\ failed' = [failed EXCEPT ![u] = TRUE]
    /\ UNCHANGED <<db, clock, ticks, calls, pc, snap, pipe, cancelled,
                   result, applied, clean, started, lbAt, last, everIn, season,
                   seasonCalls, ret>>
    /\ UNCHANGED <<statsAt, httpVars>>

(* pipe.Exec returns the first error of its commands, and so does the call *)
ExecReturn(u) ==
    /\ pc[u] = "exec"
    /\ pending[u] = {}
    /\ pc' = [pc EXCEPT ![u] = "idle"]
    /\ result' = [err |-> IF failed[u] THEN ErrUpdate ELSE "nil", dropped |-> 0]
    /\ last' = IF ~failed[u] /\ clean[u]
               THEN [snap |-> snap[u], started |-> started[u], at |-> lbAt[u]]
               ELSE last
    /\ snap' = [snap EXCEPT ![u] = Leaderboard(<<>>)]
    /\ pipe' = [pipe EXCEPT ![u] = <<>>]
    /\ Fresh(u)
    /\ UNCHANGED <<db, clock, ticks, calls, pending, everIn, season,
                   seasonCalls, ret>>
    /\ UNCHANGED <<statsAt, httpVars>>

(* UpdateLeaderboard on a backend at its most favourable: every           *)
(* json.Marshal succeeds, all the keys share one slot, so that pipe.Exec   *)
(* is a single MULTI/EXEC, and that transaction succeeds                   *)
UpdateLeaderboardAtomic(u, lb) ==
    /\ pc[u] = "idle"
    /\ calls < MaxCalls
    /\ calls' = calls + 1
    /\ db' = ApplyAll(db, QueuePlayers(QueueLeaderboard(lb), lb.Included), clock)
    /\ result' = [err |-> "nil", dropped |-> 0]
    /\ last' = [snap |-> lb, started |-> clock, at |-> clock]
    /\ everIn' = everIn \cup IDsOf(lb)
    /\ UNCHANGED <<clock, ticks, pc, snap, pipe, pending, failed, cancelled,
                   applied, clean, started, lbAt, season, seasonCalls, ret>>
    /\ statsAt' = [p \in PlayerIDs |->
           IF p \in IDsOf(lb) THEN clock ELSE statsAt[p]]
    /\ UNCHANGED httpVars

(* The caller cancels the ctx of a call in flight *)
Cancel(u) ==
    /\ pc[u] # "idle"
    /\ ~cancelled[u]
    /\ cancelled' = [cancelled EXCEPT ![u] = TRUE]
    /\ UNCHANGED <<db, clock, ticks, calls, pc, snap, pipe, pending, failed,
                   result, applied, clean, started, lbAt, last, everIn, season,
                   seasonCalls, ret>>
    /\ UNCHANGED <<statsAt, httpVars>>

----------------------------------------------------------------------------
(* UpdateSeason: a single SET with the 24-hour expiry *)

(* The season stored with the leaderboard's expiry *)
SeasonCmd_LeaderboardTTL(sd) == SetCmd(SeasonKey, JsonMarshal(sd), LeaderboardTTL)

SeasonCmd(sd) == SetCmd(SeasonKey, JsonMarshal(sd), SeasonTTL)

UpdateSeasonOk(sd) ==
    /\ seasonCalls < MaxSeasonCalls
    /\ seasonCalls' = seasonCalls + 1
    /\ db' = ApplyCmd(db, SeasonCmd(sd), clock)
    /\ season' = [val |-> sd, at |-> clock]
    /\ ret' = [op |-> "UpdateSeason", res |-> Ok(<<>>)]
    /\ UNCHANGED <<clock, ticks, calls, last, everIn>>
    /\ UNCHANGED updVars
    /\ UNCHANGED <<statsAt, httpVars>>

(* json.Marshal(season) fails, or the SET returns an error *)
UpdateSeasonError(sd, e) ==
    /\ seasonCalls < MaxSeasonCalls
    /\ seasonCalls' = seasonCalls + 1
    /\ ret' = [op |-> "UpdateSeason", res |-> Err(e)]
    /\ UNCHANGED <<db, clock, ticks, calls, last, everIn, season>>
    /\ UNCHANGED updVars
    /\ UNCHANGED <<statsAt, httpVars>>

----------------------------------------------------------------------------
(* The read operations: one backend command each *)

Ping(ok) ==
    /\ ret' = [op |-> "Ping", res |-> IF ok THEN Ok(<<>>) ELSE Err("unreachable")]
    /\ UNCHANGED <<db, clock, ticks, calls, last, everIn, season, seasonCalls>>
    /\ UNCHANGED updVars
    /\ UNCHANGED <<statsAt, httpVars>>

ReadLeaderboard ==
    /\ ret' = [op |-> "GetLeaderboard", res |-> GetLeaderboard(db)]
    /\ UNCHANGED <<db, clock, ticks, calls, last, everIn, season, seasonCalls>>
    /\ UNCHANGED updVars
    /\ UNCHANGED <<statsAt, httpVars>>

(* A read that renews the expiry of the key it reads *)
ReadPlayerStats_Touch(playerID) ==
    /\ ret' = [op |-> "GetPlayerStats", res |-> GetPlayerStats(db, playerID)]
    /\ db' = ApplyExpire(db, ExpireCmd(PlayerStatsKey(playerID), PlayerStatsTTL), clock)
    /\ UNCHANGED <<clock, ticks, calls, last, everIn, season, seasonCalls>>
    /\ UNCHANGED updVars
    /\ UNCHANGED <<statsAt, httpVars>>

ReadPlayerStats(playerID) ==
    /\ ret' = [op |-> "GetPlayerStats", res |-> GetPlayerStats(db, playerID)]
    /\ UNCHANGED <<db, clock, ticks, calls, last, everIn, season, seasonCalls>>
    /\ UNCHANGED updVars
    /\ UNCHANGED <<statsAt, httpVars>>

ReadSeason ==
    /\ ret' = [op |-> "GetSeason", res |-> GetSeason(db)]
    /\ UNCHANGED <<db, clock, ticks, calls, last, everIn, season, seasonCalls>>
    /\ UNCHANGED updVars
    /\ UNCHANGED <<statsAt, httpVars>>

----------------------------------------------------------------------------
(* Another client of the cluster stores bytes that are not the JSON of a   *)
(* value under one of the keys: what the json.Unmarshal branches of the    *)
(* getters are there for                                                   *)
NotJson == <<"raw">>

ForeignKeys == {LeaderboardKey, SeasonKey} \cup {PlayerStatsKey(p) : p \in PlayerIDs}

ForeignWrite(key) ==
    /\ key \in DOMAIN db
    /\ db' = IF db[key].kind = "hash"
             THEN Put(db, key, [db[key] EXCEPT !.val = ("stats" :> NotJson)])
             ELSE Put(db, key, [db[key] EXCEPT !.val = NotJson])
    /\ last' = None
    /\ season' = IF key = SeasonKey THEN None ELSE season
    /\ UNCHANGED <<clock, ticks, calls, everIn, seasonCalls, ret>>
    /\ UNCHANGED updVars
    /\ UNCHANGED <<statsAt, httpVars>>

----------------------------------------------------------------------------
(* Time passes; the backend drops the keys whose expiry is past *)

Advance(dt) ==
    /\ ticks < MaxTicks
    /\ ticks' = ticks + 1
    /\ clock' = clock + dt
    /\ db' = Purge(db, clock + dt)
    /\ UNCHANGED <<calls, last, everIn, season, seasonCalls, ret>>
    /\ UNCHANGED updVars
    /\ statsAt' = [p \in PlayerIDs |->
           IF PlayerStatsKey(p) \in DOMAIN Purge(db, clock + dt)
           THEN statsAt[p] ELSE -1]
    /\ UNCHANGED httpVars

----------------------------------------------------------------------------
(* The handlers *)

StatusOK == 200
StatusBadRequest == 400
StatusNotFound == 404
StatusInternalServerError == 500

Response(status, body) == [status |-> status, body |-> body]

RedisPingResponse(r) ==
    IF r.err # "nil"
    THEN Response(StatusInternalServerError, [error |-> "Failed to ping Redis"])
    ELSE Response(StatusOK, [message |-> "pong"])

CurrentSeasonResponse(r) ==
    IF r.err # "nil"
    THEN Response(StatusInternalServerError, [error |-> "Failed to get current season"])
    ELSE Response(StatusOK, [seasonData |-> r.val])

CurrentLeaderboardResponse(r) ==
    IF r.err # "nil"
    THEN Response(StatusInternalServerError, [error |-> "Failed to get current leaderboard"])
    ELSE Response(StatusOK, r.val)

(* A cache miss answered like every other failure *)
PlayerStatsResponse_NoNotFound(playerID, r) ==
    IF r.err # "nil"
    THEN Response(StatusInternalServerError, [error |-> "Failed to get player stats"])
    ELSE Response(StatusOK, [playerID |-> playerID, rank |-> r.val.rank,
                             gamesPlayed |-> r.val.gamesPlayed, wins |-> r.val.wins])

PlayerStatsResponse(playerID, r) ==
    IF r.err # "nil"
    THEN IF r.err = "ErrCacheMiss"
         THEN Response(StatusNotFound, [error |-> "Player stats not found"])
         ELSE Response(StatusInternalServerError, [error |-> "Failed to get player stats"])
    ELSE Response(StatusOK, [playerID |-> playerID, rank |-> r.val.rank,
                             gamesPlayed |-> r.val.gamesPlayed, wins |-> r.val.wins])

BackupResponse(backupFileName, r) ==
    IF r.err # "nil"
    THEN Response(StatusInternalServerError, [error |-> "Failed to backup leaderboard data"])
    ELSE Response(StatusOK, [message |-> "Leaderboard data backed up successfully",
                             bucket |-> "pubg-leaderboard", file |-> backupFileName])

(* A backup that is not in the bucket answered as not found *)
RestoreResponse_MissingIsNotFound(backupFileName, r) ==
    IF r.err = "StorageReadError"
    THEN Response(StatusNotFound, [error |-> "Failed to restore leaderboard data"])
    ELSE IF r.err # "nil"
    THEN Response(StatusInternalServerError, [error |-> "Failed to restore leaderboard data"])
    ELSE Response(StatusOK, [message |-> "Leaderboard data restored successfully",
                             bucket |-> "pubg-leaderboard", file |-> backupFileName])

RestoreResponse(backupFileName, r) ==
    IF r.err # "nil"
    THEN Response(StatusInternalServerError, [error |-> "Failed to restore leaderboard data"])
    ELSE Response(StatusOK, [message |-> "Leaderboard data restored successfully",
                             bucket |-> "pubg-leaderboard", file |-> backupFileName])

(* The router hands a request to its handler, which runs up to the call of *)
(* its operation; handleBackupLeaderboard has made its file name by then   *)
Receive(ep, playerID, file) ==
    /\ req.ep = "none"
    /\ requests < MaxRequests
    /\ requests' = requests + 1
    /\ playerID # "" <=> ep = PlayerStatsRoute
    /\ file # <<>> => ep = RestoreRoute
    /\ LET backupFileName == IF ep = BackupRoute THEN BackupFileName(wall) ELSE file IN
         /\ req' = [ep |-> ep, playerID |-> playerID, file |-> backupFileName,
                    ctx |-> CtxOf(ep), cancelled |-> FALSE, done |-> FALSE]
         /\ backups' = IF ep = BackupRoute
                       THEN Append(backups, [at |-> wall, name |-> backupFileName])
                       ELSE backups
    /\ UNCHANGED <<resp, wall>>
    /\ UNCHANGED storeVars

(* The client goes away: the request's ctx is done, and so is the ctx of   *)
(* the operation when it is the request's                                  *)
CancelRequest ==
    /\ req.ep # "none"
    /\ ~req.cancelled
    /\ req' = [req EXCEPT !.cancelled = TRUE, !.done = (req.ctx = RequestCtx)]
    /\ UNCHANGED <<resp, wall, backups, requests>>
    /\ UNCHANGED storeVars

(* c.JSON and the return of the handler *)
Respond(r, out) ==
    /\ resp' = [ep |-> req.ep, svc |-> r, status |-> out.status, body |-> out.body]
    /\ req' = NoRequest
    /\ UNCHANGED <<wall, backups, requests>>
    /\ UNCHANGED storeVars

handlePing ==
    /\ req.ep = PingRoute
    /\ Respond(Err("none"), Response(StatusOK, [message |-> "pong"]))

handleRedisPing(r) ==
    /\ req.ep = RedisPingRoute
    /\ r \in Outcomes(OperationOf(req.ep), req.done)
    /\ Respond(r, RedisPingResponse(r))

handleGetCurrentSeason(r) ==
    /\ req.ep = CurrentSeasonRoute
    /\ r \in Outcomes(OperationOf(req.ep), req.done)
    /\ Respond(r, CurrentSeasonResponse(r))

handleGetCurrentLeaderboard(r) ==
    /\ req.ep = CurrentLeaderboardRoute
    /\ r \in Outcomes(OperationOf(req.ep), req.done)
    /\ Respond(r, CurrentLeaderboardResponse(r))

handleGetPlayerStats(r) ==
    /\ req.ep = PlayerStatsRoute
    /\ r \in Outcomes(OperationOf(req.ep), req.done)
    /\ Respond(r, PlayerStatsResponse(req.playerID, r))

handleBackupLeaderboard(r) ==
    /\ req.ep = BackupRoute
    /\ r \in Outcomes(OperationOf(req.ep), req.done)
    /\ Respond(r, BackupResponse(req.file, r))

(* backupFileName == "": the handler answers without calling the service *)
handleRestoreLeaderboardNoFile ==
    /\ req.ep = RestoreRoute
    /\ req.file = <<>>
    /\ Respond(Err("none"),
               Response(StatusBadRequest, [error |-> "Backup file name is required"]))

handleRestoreLeaderboard(r) ==
    /\ req.ep = RestoreRoute
    /\ req.file # <<>>
    /\ r \in Outcomes(OperationOf(req.ep), req.done)
    /\ Respond(r, RestoreResponse(req.file, r))

(* The server's time moves on by half a second *)
Tick ==
    /\ wall < MaxWall
    /\ wall' = wall + 1
    /\ UNCHANGED <<req, resp, backups, requests>>
    /\ UNCHANGED storeVars

(* Every result an operation of the service may return *)
AllOutcomes == UNION {Outcomes(OperationOf(ep), TRUE) : ep \in Routes}

----------------------------------------------------------------------------

(* The leaderboard side of the store: concurrent UpdateLeaderboard calls,  *)
(* cancellation and the passing of time                                    *)
Next ==
    \/ \E u \in Callers, lb \in Snapshots : UpdateLeaderboardBegin(u, lb)
    \/ \E u \in Callers, lb \in Snapshots : UpdateLeaderboardEncodeError(u, lb)
    \/ \E u \in Callers, lb \in Snapshots, k \in 1..MaxIncluded :
           PlayerStatsEncodeError(u, lb, k)
    \/ \E u \in Callers, s \in Slots : ExecSlotOk(u, s)
    \/ \E u \in Callers, s \in Slots : ExecSlotFail(u, s)
    \/ \E u \in Callers : ExecReturn(u)
    \/ \E u \in Callers : Cancel(u)
    \/ \E dt \in LeaderboardSteps : Advance(dt)

Spec == Init /\ [][Next]_vars

(* The same store with a single caller, whose UpdateLeaderboard calls      *)
(* follow one another.  A slot's transaction still fails at will, which is *)
(* all a cancelled ctx does to the store.                                  *)
Solo == "u1"

NextSerial ==
    \/ \E lb \in Snapshots : UpdateLeaderboardBegin(Solo, lb)
    \/ \E lb \in Snapshots : UpdateLeaderboardEncodeError(Solo, lb)
    \/ \E lb \in Snapshots, k \in 1..MaxIncluded : PlayerStatsEncodeError(Solo, lb, k)
    \/ \E s \in Slots : ExecSlotOk(Solo, s)
    \/ \E s \in Slots : ExecSlotFail(Solo, s)
    \/ ExecReturn(Solo)
    \/ \E dt \in LeaderboardSteps : Advance(dt)

SpecSerial == Init /\ [][NextSerial]_vars

(* The store on the most favourable backend: calls one after the other,   *)
(* each applied whole, none failing                                        *)
NextAtomic ==
    \/ \E lb \in Snapshots : UpdateLeaderboardAtomic(Solo, lb)
    \/ \E dt \in LeaderboardSteps : Advance(dt)

SpecAtomic == Init /\ [][NextAtomic]_vars

(* Concurrent UpdateLeaderboard calls whose marshalling succeeds and      *)
(* which write the key of the same player: the transactions of the two     *)
(* pipelines interleave slot by slot, each failing at will                 *)
SharedSnapshots == {lb \in Snapshots : IDsOf(lb) = {"p2"}}

NextInterleaved ==
    \/ \E u \in Callers, lb \in SharedSnapshots : UpdateLeaderboardBegin(u, lb)
    \/ \E u \in Callers, s \in Slots : ExecSlotOk(u, s)
    \/ \E u \in Callers, s \in Slots : ExecSlotFail(u, s)
    \/ \E u \in Callers : ExecReturn(u)
    \/ \E dt \in LeaderboardSteps : Advance(dt)

SpecInterleaved == Init /\ [][NextInterleaved]_vars

(* The season side of the store *)
NextSeason ==
    \/ \E sd \in Seasons : UpdateSeasonOk(sd)
    \/ \E sd \in Seasons, e \in {"marshal", "backend"} : UpdateSeasonError(sd, e)
    \/ ReadSeason
    \/ \E dt \in SeasonSteps : Advance(dt)

SpecSeason == Init /\ [][NextSeason]_vars

(* The readers of the store, next to writers that fill it, a foreign      *)
(* writer and the passing of time                                          *)
NextReads ==
    \/ \E lb \in SharedSnapshots : UpdateLeaderboardAtomic(Solo, lb)
    \/ \E sd \in Seasons : UpdateSeasonOk(sd)
    \/ \E key \in ForeignKeys : ForeignWrite(key)
    \/ \E ok \in BOOLEAN : Ping(ok)
    \/ ReadLeaderboard
    \/ \E playerID \in PlayerIDs : ReadPlayerStats(playerID)
    \/ ReadSeason
    \/ \E dt \in LeaderboardSteps : Advance(dt)

SpecReads == Init /\ [][NextReads]_vars

(* The HTTP boundary: one request at a time, the client free to go away   *)
(* while it is served                                                      *)
NextHTTP ==
    \/ \E ep \in Routes, playerID \in {""} \cup PlayerIDs, file \in RestoreFiles :
           Receive(ep, playerID, file)
    \/ CancelRequest
    \/ handlePing
    \/ \E r \in AllOutcomes : handleRedisPing(r)
    \/ \E r \in AllOutcomes : handleGetCurrentSeason(r)
    \/ \E r \in AllOutcomes : handleGetCurrentLeaderboard(r)
    \/ \E r \in AllOutcomes : handleGetPlayerStats(r)
    \/ \E r \in AllOutcomes : handleBackupLeaderboard(r)
    \/ handleRestoreLeaderboardNoFile
    \/ \E r \in AllOutcomes : handleRestoreLeaderboard(r)
    \/ Tick

SpecHTTP == Init /\ [][NextHTTP]_vars

----------------------------------------------------------------------------
(* What a reader would be handed at this instant *)

Quiet == \A u \in Callers : pc[u] = "idle"

(* Player p is an entry of snapshot lb with attributes a *)
HasEntry(lb, p, a) ==
    \E k \in 1..Len(lb.Included) :
        lb.Included[k].ID = p /\ lb.Included[k].Attributes = a

(* The leaderboard key was written in the current minute *)
JustWritten ==
    LeaderboardKey \in DOMAIN db /\ db[LeaderboardKey].exp = clock + 10 * Minute

TenMinutes == 10 * Minute
TwentyFourHours == 24 * 60 * Minute

----------------------------------------------------------------------------
(* C1: in every reachable state, if GetLeaderboard returns snapshot S and  *)
(* GetPlayerStats(p) returns a record r, then p is an entry of S and r is  *)
(* the attributes of p in S.                                               *)
C1_PlayerRecordBelongsToSnapshot ==
    LET lb == GetLeaderboard(db) IN
    IsOk(lb) =>
        \A p \in PlayerIDs :
            LET r == GetPlayerStats(db, p) IN
            IsOk(r) => HasEntry(lb.val, p, r.val)

(* C2: while an UpdateLeaderboard is in flight, a reader never finds       *)
(* GetLeaderboard succeeding with S and GetPlayerStats(p) missing for an   *)
(* entry p of S (the leaderboard key being too young for any of its keys   *)
(* to have expired).                                                       *)
C2_NoMissForListedPlayer ==
    LET lb == GetLeaderboard(db) IN
    ((\E u \in Callers : pc[u] = "exec") /\ IsOk(lb) /\ JustWritten) =>
        \A p \in IDsOf(lb.val) : ~IsMiss(GetPlayerStats(db, p))

(* C3: once the UpdateLeaderboard calls have completed, every cached       *)
(* per-player record derives from the one snapshot stored under the        *)
(* leaderboard key: the cache holds no mix of two snapshots.               *)
C3_NoMixOfSnapshots ==
    LET lb == GetLeaderboard(db) IN
    (Quiet /\ IsOk(lb)) =>
        \A p \in PlayerIDs :
            PlayerStatsKey(p) \in DOMAIN db =>
                HasEntry(lb.val, p, JsonUnmarshal(db[PlayerStatsKey(p)].val["stats"]))

(* C4: an UpdateLeaderboard that returns the backend write error has       *)
(* applied none of its writes.                                             *)
C4_FailedUpdateAppliesNothing ==
    \A u \in Callers :
        (pc[u] = "exec" /\ pending[u] = {} /\ failed[u]) => applied[u] = {}

(* C5: whenever the leaderboard key and a player_stats key are both        *)
(* present, they have the same expiry time.                                *)
C5_SameExpiry ==
    \A p \in PlayerIDs :
        (LeaderboardKey \in DOMAIN db /\ PlayerStatsKey(p) \in DOMAIN db) =>
            db[PlayerStatsKey(p)].exp = db[LeaderboardKey].exp

(* C6: after a successful UpdateLeaderboard(S) whose SET ran at time T,    *)
(* with no later update, GetLeaderboard returns S at every time t with     *)
(* T <= t < T + 10 minutes and CacheMiss at every time t > T + 10 minutes. *)
C6_LeaderboardLivesTenMinutes ==
    last # None =>
        LET r == GetLeaderboard(db) IN
        /\ (last.at <= clock /\ clock < last.at + TenMinutes) =>
               (IsOk(r) /\ r.val = last.snap)
        /\ clock > last.at + TenMinutes => IsMiss(r)

C6_Witness ==
    /\ last # None
    /\ Len(last.snap.Included) > 0
    /\ clock > last.at + TenMinutes
    /\ IsMiss(GetLeaderboard(db))

(* C7: after a successful UpdateLeaderboard(S), S a snapshot whose player  *)
(* IDs are unique, GetPlayerStats(p.ID) returns the attributes of p for    *)
(* every entry p of S until the ten minutes are over; and GetPlayerStats   *)
(* returns CacheMiss for every ID that no snapshot handed to               *)
(* UpdateLeaderboard has contained.                                        *)
C7_PlayerStatsOfSnapshot ==
    /\ (last # None /\ UniqueIDs(last.snap)) =>
           \A k \in 1..Len(last.snap.Included) :
               clock < last.started + TenMinutes =>
                   LET r == GetPlayerStats(db, last.snap.Included[k].ID) IN
                   IsOk(r) /\ r.val = last.snap.Included[k].Attributes
    /\ \A p \in PlayerIDs \ everIn : IsMiss(GetPlayerStats(db, p))

C7_Witness ==
    /\ last # None
    /\ IDsOf(last.snap) = {"p1", "p2"}
    /\ IsOk(GetPlayerStats(db, "p2"))
    /\ GetPlayerStats(db, "p2").val = Attr(1, 80, 20)
    /\ IsMiss(GetPlayerStats(db, "p3"))

(* C8: after a successful UpdateSeason(s) at time T, GetSeason returns     *)
(* exactly s until the next UpdateSeason or T + 24 hours, and CacheMiss    *)
(* after T + 24 hours when no UpdateSeason came later.                     *)
C8_SeasonLivesOneDay ==
    season # None =>
        LET r == GetSeason(db) IN
        /\ (season.at <= clock /\ clock < season.at + TwentyFourHours) =>
               (IsOk(r) /\ r.val = season.val)
        /\ clock > season.at + TwentyFourHours => IsMiss(r)

C8_Witness ==
    /\ season # None
    /\ clock > season.at + TwentyFourHours
    /\ IsMiss(GetSeason(db))

(* C9: an UpdateLeaderboard whose ctx is cancelled while its transaction   *)
(* is not yet complete has applied none of its writes.                     *)
C9_CancelledUpdateAppliesNothing ==
    \A u \in Callers :
        (pc[u] = "exec" /\ cancelled[u] /\ pending[u] # {}) => applied[u] = {}

(* C10: an UpdateLeaderboard that returns a marshalling error, of the      *)
(* snapshot or of a player after others were queued, returns before any    *)
(* slot of the transaction is run and leaves the cache as it was.          *)
C10_EncodeErrorLeavesCacheUnchanged ==
    [][(calls' = calls + 1 /\ pc' = pc
            /\ result'.err \in {ErrMarshalLeaderboard, ErrMarshalPlayer})
          => (db' = db /\ pending' = pending /\ applied' = applied)]_vars

C10_Witness ==
    /\ result.err = ErrMarshalPlayer
    /\ result.dropped >= 3
    /\ LeaderboardKey \in DOMAIN db
    /\ Quiet

----------------------------------------------------------------------------
(* The five endpoints of the service *)
ServiceRoutes == {CurrentSeasonRoute, CurrentLeaderboardRoute, PlayerStatsRoute,
                  BackupRoute, RestoreRoute}

(* Name a sorts strictly before name b: the names differ only in the       *)
(* fields of the timestamp, which are of fixed width                       *)
NameBefore(a, b) ==
    \E k \in 2..7 : (\A j \in 2..(k - 1) : a[j] = b[j]) /\ a[k] < b[k]

(* C11: the response of handleGetPlayerStats has status 404 exactly when   *)
(* the service's GetPlayerStats returned the cache-miss error, 500 for     *)
(* every other error, and 200 with the rank, gamesPlayed and wins the      *)
(* service returned when there is no error.                                *)
C11_PlayerStatsNotFoundIsDistinct ==
    resp.ep = PlayerStatsRoute =>
        /\ resp.status = 404 <=> resp.svc.err = "ErrCacheMiss"
        /\ resp.svc.err \notin {"nil", "ErrCacheMiss"} => resp.status = 500
        /\ resp.svc.err = "nil" =>
               /\ resp.status = 200
               /\ resp.body.rank = resp.svc.val.rank
               /\ resp.body.gamesPlayed = resp.svc.val.gamesPlayed
               /\ resp.body.wins = resp.svc.val.wins

C11_Witness ==
    /\ resp.ep = PlayerStatsRoute
    /\ resp.svc.err = "ErrCacheMiss"
    /\ resp.status = 404
    /\ resp.body.error = "Player stats not found"

(* C12: every error response of the five endpoints has status 404 when    *)
(* the failure is a cache miss and 500 for every other failure; no other   *)
(* error status is returned.                                               *)
C12_ErrorStatusIsNotFoundOrServerError ==
    (resp.ep \in ServiceRoutes /\ resp.status >= 400) =>
        resp.status = IF resp.svc.err = "ErrCacheMiss" THEN 404 ELSE 500

(* C12, amended: every error response of the five endpoints has status    *)
(* 400 when the handler refused the request without calling the service,   *)
(* which only POST /restore-leaderboard without a file name does, 404      *)
(* when the service failed with a cache miss, and 500 for every other      *)
(* failure of the service.                                                 *)
C12_ErrorStatusWithBadRequest ==
    (resp.ep \in ServiceRoutes /\ resp.status >= 400) =>
        /\ resp.status = CASE resp.svc.err = "none" -> 400
                           [] resp.svc.err = "ErrCacheMiss" -> 404
                           [] OTHER -> 500
        /\ resp.status = 400 => resp.ep = RestoreRoute

C12_Witness ==
    /\ resp.ep = RestoreRoute
    /\ resp.status = 400
    /\ resp.svc.err = "none"
    /\ resp.body.error = "Backup file name is required"

(* C13: of two backup requests handled at times t1 < t2, the generated     *)
(* names differ and the name of the first sorts strictly before the name   *)
(* of the second.                                                          *)
C13_BackupNamesUniqueAndOrdered ==
    \A i, j \in 1..Len(backups) :
        backups[i].at < backups[j].at =>
            /\ backups[i].name # backups[j].name
            /\ NameBefore(backups[i].name, backups[j].name)

(* What the leaderboard key may hold in another cache state: nothing (it  *)
(* was never written, or has expired), or any snapshot with any expiry     *)
LeaderboardEntries ==
    {None} \cup {[kind |-> "string", val |-> JsonMarshal(lb), exp |-> e] :
                    lb \in Snapshots, e \in {clock, clock + TenMinutes}}

(* The cache state d with the leaderboard key holding e *)
WithLeaderboard(d, e) ==
    IF e = None
    THEN [k \in DOMAIN d \ {LeaderboardKey} |-> d[k]]
    ELSE Put(d, LeaderboardKey, e)

(* C14: GetPlayerStats(p) returns the same result in every cache state     *)
(* that agrees with the present one on the player_stats:<p> entry, whether *)
(* the leaderboard key is absent, expired or holds another snapshot.       *)
C14_PlayerStatsIndependentOfLeaderboard ==
    \A p \in PlayerIDs, e \in LeaderboardEntries :
        GetPlayerStats(WithLeaderboard(db, e), p) = GetPlayerStats(db, p)

C14_Witness ==
    /\ LeaderboardKey \notin DOMAIN db
    /\ PlayerStatsKey("p2") \in DOMAIN db
    /\ IsOk(GetPlayerStats(db, "p2"))
    /\ IsMiss(GetLeaderboard(db))
    /\ IsMiss(GetPlayerStats(db, "p1"))

(* C16: every player_stats key that is present has an expiry, and that    *)
(* expiry is at most ten minutes after the last UpdateLeaderboard write    *)
(* applied to the key, however the transactions of concurrent calls        *)
(* interleave.                                                             *)
C16_PlayerStatsKeysExpire ==
    \A p \in PlayerIDs :
        PlayerStatsKey(p) \in DOMAIN db =>
            /\ db[PlayerStatsKey(p)].exp # NoExpiry
            /\ statsAt[p] >= 0
            /\ db[PlayerStatsKey(p)].exp <= statsAt[p] + TenMinutes

C16_Witness ==
    /\ pc["u1"] = "exec" /\ pc["u2"] = "exec"
    /\ Slot(PlayerStatsKey("p2")) \in applied["u1"] \cap applied["u2"]
    /\ PlayerStatsKey("p2") \in DOMAIN db
    /\ statsAt["p2"] > 0
    /\ db[PlayerStatsKey("p2")].exp = statsAt["p2"] + TenMinutes

(* The last entry of snapshot lb that has player ID p *)
LastEntry(lb, p) ==
    lb.Included[CHOOSE k \in 1..Len(lb.Included) :
                    /\ lb.Included[k].ID = p
                    /\ \A j \in (k + 1)..Len(lb.Included) : lb.Included[j].ID # p]

(* C17: after a successful UpdateLeaderboard(S), S a snapshot in which a   *)
(* player ID occurs more than once, and until the ten minutes are over,    *)
(* GetPlayerStats(id) returns the attributes of the last entry of S with   *)
(* that ID, while GetLeaderboard returns S with all of its entries.        *)
C17_LastDuplicateWins ==
    (last # None /\ ~UniqueIDs(last.snap) /\ clock < last.started + TenMinutes) =>
        /\ \A p \in IDsOf(last.snap) :
               LET r == GetPlayerStats(db, p) IN
               IsOk(r) /\ r.val = LastEntry(last.snap, p).Attributes
        /\ LET lb == GetLeaderboard(db) IN
           IsOk(lb) /\ lb.val = last.snap

C17_Witness ==
    /\ last # None
    /\ Len(last.snap.Included) = 2
    /\ IDsOf(last.snap) = {"p1"}
    /\ GetPlayerStats(db, "p1") = Ok(Attr(4, 50, 5))
    /\ IsOk(GetLeaderboard(db))
    /\ Len(GetLeaderboard(db).val.Included) = 2

ReadOps == {"Ping", "GetLeaderboard", "GetPlayerStats", "GetSeason"}

(* C18: a step in which Ping, GetLeaderboard, GetPlayerStats or GetSeason  *)
(* returns, with a value, a cache miss or a decode error, leaves every key *)
(* of the cache as it was: none created, deleted or rewritten, no expiry   *)
(* changed.                                                                *)
C18_ReadsLeaveCacheUnchanged ==
    [][(ret' # ret /\ ret'.op \in ReadOps) => db' = db]_vars

C18_Witness ==
    /\ ret.op = "GetPlayerStats"
    /\ ret.res.err = "unmarshal"
    /\ PlayerStatsKey("p2") \in DOMAIN db
    /\ db[PlayerStatsKey("p2")].val["stats"] = NotJson
    /\ IsOk(GetLeaderboard(db))
    /\ IsMiss(GetSeason(db))

(* C15: once the client of a request being served has gone away, the ctx   *)
(* of the operation its handler called is done.                            *)
C15_RequestCancellationReachesOperation ==
    (OperationOf(req.ep) # "none" /\ req.cancelled) => req.done

====
